---- MODULE Spec2Model ----
(***************************************************************************)
(* A2A / MCP customer-service agents: the envelope protocol                *)
(* (agents/agent_client.py), the transport connector                       *)
(* (AgentConnector.send_message / invoke_tool), the support agent's /a2a   *)
(* handler (agents/support_agent.py) and the router's /query fan-out       *)
(* (agents/router_agent.py).                                               *)
(*                                                                         *)
(* A Python value is kept as a record with one field, named after its      *)
(* type, so that values of different Python types can live in one place:   *)
(*   none  : None                 str  : an atomic str                     *)
(*   text  : a str whose characters the code inspects (a char sequence)    *)
(*   int   : an int               bool : a bool                            *)
(*   uuid  : str(uuid.uuid4()), val = the number of the draw               *)
(*   fmt   : an f-string, val = <<template, argument>>                     *)
(*   list  : a list (a sequence)  dict : a dict (a function on its keys)   *)
(*   exc   : an exception, val = <<type, message>>                         *)
(***************************************************************************)
EXTENDS Integers, Sequences, FiniteSets, TLC

VARIABLES
    uuid_n,     \* number of uuid.uuid4() values drawn so far
    p_in,       \* envelope protocol: arguments for create_a2a_message
    p_msg,      \* envelope protocol: the message under consideration (a dict)
    p_src,      \* how p_msg came about: "input" | "built" | "error_reply"
    p_orig,     \* the message p_msg was derived from by generate_error_response
    p_op,       \* last protocol operation applied
    p_ret,      \* what the last check_message_schema call returned or raised
    p_steps,    \* number of protocol operations applied
    s_msg,      \* send_message: the message argument
    s_sched,    \* the transport's behaviour on the 1st, 2nd, ... delivery attempt
    s_pc,       \* send_message: "idle" | "start" | "post" | "done"
    s_attempts, \* number of requests.post calls issued by this send_message call
    s_sleeps,   \* the delays of the time.sleep calls made by this send_message call
    s_ret,      \* what send_message returned
    h_agent,    \* /a2a handler: the agent that received the envelope
    h_msg,      \* /a2a handler: the envelope received (msg)
    h_pc,       \* /a2a handler: "idle" | "recv" | "gather" | "replied"
    h_intents,  \* support agent: the list `intents`
    h_state,    \* support agent: per intent, "pending" | "tool" | "done" | "raised"
    h_res,      \* support agent: per intent, what its handler returned
    h_exc,      \* support agent: the first exception a handler raised
    h_calls,    \* the invoke_tool calls made, in order: <<position, tool, arguments>>
    h_tool,     \* per intent, what the tool channel did on each attempt of its call
    h_reply,    \* the envelope the /a2a handler returned
    q_body,     \* /query: the request body (a dict)
    q_pc,       \* /query: "idle" | "recv" | "gather" | "done" | "crashed"
    q_meta,     \* /query: task_metadata, one {intent, requires_escalation} per task
    q_sent,     \* /query: per task, the (target_url, msg) handed to send_message
    q_bpc,      \* /query: per branch, "created" | "post" | "done"
    q_raw,      \* /query: per branch, the value or exception gather collects
    q_order,    \* /query: the branches in the order they finished
    q_posts,    \* /query: number of requests.post calls made by the branches
    q_resp      \* /query: the response returned to the caller

p_vars == <<p_in, p_msg, p_src, p_orig, p_op, p_ret, p_steps>>

s_vars == <<s_msg, s_sched, s_pc, s_attempts, s_sleeps, s_ret>>

h_vars == <<h_agent, h_msg, h_pc, h_intents, h_state, h_res, h_exc, h_calls, h_tool,
           h_reply>>

q_vars == <<q_body, q_pc, q_meta, q_sent, q_bpc, q_raw, q_order, q_posts, q_resp>>

vars == <<uuid_n, p_vars, s_vars, h_vars, q_vars>>

-----------------------------------------------------------------------------
(* Python values *)

None == [none |-> 0]
Str(s) == [str |-> s]
Text(cs) == [text |-> cs]
Num(i) == [int |-> i]
Bool(b) == [bool |-> b]
Uuid(n) == [uuid |-> n]
Fmt(template, arg) == [fmt |-> <<Str(template), arg>>]
List(q) == [list |-> q]
Dict(f) == [dict |-> f]
Exc(type, message) == [exc |-> <<Str(type), message>>]

\* the Python type of a value and what it holds
Kind(v) == CHOOSE k \in DOMAIN v : TRUE
Val(v) == v[Kind(v)]

EmptyMap == [k \in {} |-> None]

\* bool(v): Python truthiness, as used by `x if x else y`, `x or y`, `not x`
Truthy(v) ==
    v \notin {None, Str(""), Text(<<>>), Num(0), Bool(FALSE), List(<<>>), Dict(EmptyMap)}

\* d.get(key, default) on a Python dict held as a function
Get(d, key, default) == IF key \in DOMAIN d THEN d[key] ELSE default

\* str(v): the identity on a str, the message of an exception
PyStr(v) ==
    CASE Kind(v) \in {"str", "text", "uuid", "fmt"} -> v
      [] Kind(v) = "exc" -> Val(v)[2]
      [] OTHER -> Fmt("str()", v)

\* the outcome of a call: a returned value or a raised exception
Return(v) == [raised |-> FALSE, val |-> v]
Raise(e) == [raised |-> TRUE, val |-> e]

\* datetime.utcnow().isoformat(): the creation time, opaque to the protocol
Timestamp == Str("utcnow")

-----------------------------------------------------------------------------
(* 1. Agent Card & A2A Schema (agents/agent_client.py) *)

\* number of uuid4() draws a create_a2a_message call makes
UuidDraws(corr_id) == IF Truthy(corr_id) THEN 1 ELSE 2

create_a2a_message_no_payload(sender_id, recipient_id, intent, content, msg_type, corr_id, n) ==
    LET full == [message_id |-> Uuid(n + 1), from |-> sender_id, to |-> recipient_id,
                 type |-> msg_type, intent |-> intent,
                 correlation_id |-> IF Truthy(corr_id) THEN corr_id ELSE Uuid(n + 2),
                 timestamp |-> Timestamp]
    IN  IF Truthy(content) THEN full @@ [payload |-> content] ELSE full

\* create_a2a_message, called when n uuids have been drawn
create_a2a_message(sender_id, recipient_id, intent, content, msg_type, corr_id, n) ==
    [message_id |-> Uuid(n + 1),
     from |-> sender_id,
     to |-> recipient_id,
     type |-> msg_type,
     intent |-> intent,
     payload |-> IF Truthy(content) THEN content ELSE Dict(EmptyMap),
     correlation_id |-> IF Truthy(corr_id) THEN corr_id ELSE Uuid(n + 2),
     timestamp |-> Timestamp]

required_without_to == <<"message_id", "from", "type", "intent", "payload", "correlation_id">>

required == <<"message_id", "from", "to", "type", "intent", "payload", "correlation_id">>

required_with_timestamp ==
    <<"message_id", "from", "to", "type", "intent", "payload", "correlation_id", "timestamp">>

missing_fields_timestamp(message) ==
    SelectSeq(required_with_timestamp, LAMBDA f : f \notin DOMAIN message)

\* missing = [f for f in required if f not in message]
missing_fields(message) == SelectSeq(required, LAMBDA f : f \notin DOMAIN message)

StrList(q) == List([i \in 1..Len(q) |-> Str(q[i])])

check_message_schema_lenient(message) == Return(Bool(TRUE))

check_message_schema(message) ==
    LET missing == missing_fields(message)
    IN  IF missing # <<>>
        THEN Raise(Exc("ValueError", Fmt("Invalid A2A Message. Missing: ", StrList(missing))))
        ELSE Return(Bool(TRUE))

generate_error_response_no_defaults(orig_message, error_text, n) ==
    create_a2a_message(
        Get(orig_message, "to", None),
        Get(orig_message, "from", None),
        Get(orig_message, "intent", None),
        Dict([error |-> PyStr(error_text)]),
        Str("error"),
        Get(orig_message, "correlation_id", None),
        n)

generate_error_response(orig_message, error_text, n) ==
    create_a2a_message(
        Get(orig_message, "to", Str("unknown")),
        Get(orig_message, "from", Str("unknown")),
        Get(orig_message, "intent", Str("error")),
        Dict([error |-> PyStr(error_text)]),
        Str("error"),
        Get(orig_message, "correlation_id", None),
        n)

-----------------------------------------------------------------------------
(* 2. Agent Connector: AgentConnector.send_message (agents/agent_client.py) *)

\* AgentConnector.__init__(timeout_sec=5, max_attempts=3)
max_attempts == 3

\* What the transport does on one delivery attempt: the connection fails, the
\* request times out, or the target responds with a status code and a body
\* (json = FALSE: the body is not JSON, resp.json() raises).
Refused == [t |-> "refused", code |-> 0, json |-> FALSE, body |-> None]
TimedOut == [t |-> "timeout", code |-> 0, json |-> FALSE, body |-> None]
Http(code, body) == [t |-> "http", code |-> code, json |-> TRUE, body |-> body]
HttpNotJson(code, body) == [t |-> "http", code |-> code, json |-> FALSE, body |-> body]

\* requests.post(f"{target_url}/a2a", json=message, timeout=self.timeout)
requests_post(o) ==
    CASE o.t = "refused" -> Raise(Exc("ConnectionError", Str("Connection refused")))
      [] o.t = "timeout" -> Raise(Exc("Timeout", Str("Read timed out")))
      [] OTHER -> Return(o.body)

\* resp.json()
resp_json(o) ==
    IF o.json THEN Return(o.body)
    ELSE Raise(Exc("JSONDecodeError", Str("Expecting value")))

handle_response_ignores_status(o) == resp_json(o)

\* the `if resp.status_code == 200: ... else: ...` of send_message
handle_response(o) ==
    IF o.code = 200
    THEN resp_json(o)
    ELSE Return(Dict([status |-> Str("error"),
                      error |-> Fmt("HTTP {status_code}: {text}", List(<<Num(o.code), o.body>>))]))

\* `except Exception as e: return {"status": "error", "error": str(e)}`
except_return(r) ==
    IF r.raised
    THEN Dict([status |-> Str("error"), error |-> PyStr(r.val)])
    ELSE r.val

\* send_message from the requests.post call on, the transport doing o
post_and_return(o) ==
    LET resp == requests_post(o)
    IN  except_return(IF resp.raised THEN resp ELSE handle_response(o))

IdleSend ==
    /\ s_msg = EmptyMap
    /\ s_sched = <<>>
    /\ s_pc = "idle"
    /\ s_attempts = 0
    /\ s_sleeps = <<>>
    /\ s_ret = None

\* send_message, lines 70-72 and 80-82: the schema check; a ValueError is
\* caught by the except clause and returned as an error dict
SendCheck ==
    /\ s_pc = "start"
    /\ LET chk == check_message_schema(s_msg)
       IN  IF chk.raised
           THEN /\ s_ret' = except_return(chk)
                /\ s_pc' = "done"
           ELSE /\ s_pc' = "post"
                /\ UNCHANGED s_ret
    /\ UNCHANGED <<uuid_n, p_vars, s_msg, s_sched, s_attempts, s_sleeps, h_vars, q_vars>>

\* send_message, lines 74-82: the one requests.post call and the return
SendPost ==
    /\ s_pc = "post"
    /\ s_attempts' = s_attempts + 1
    /\ s_ret' = post_and_return(s_sched[s_attempts + 1])
    /\ s_pc' = "done"
    /\ UNCHANGED <<uuid_n, p_vars, s_msg, s_sched, s_sleeps, h_vars, q_vars>>

-----------------------------------------------------------------------------
(* str methods the handlers use *)

UpperCase == <<"A", "B", "C", "D", "E", "F", "G", "H", "I", "J", "K", "L", "M",
               "N", "O", "P", "Q", "R", "S", "T", "U", "V", "W", "X", "Y", "Z">>

LowerCase == <<"a", "b", "c", "d", "e", "f", "g", "h", "i", "j", "k", "l", "m",
               "n", "o", "p", "q", "r", "s", "t", "u", "v", "w", "x", "y", "z">>

LowerChar(c) ==
    IF \E i \in 1..Len(UpperCase) : UpperCase[i] = c
    THEN LowerCase[CHOOSE i \in 1..Len(UpperCase) : UpperCase[i] = c]
    ELSE c

\* cs.lower()
lower(cs) == [i \in 1..Len(cs) |-> LowerChar(cs[i])]

\* `k in cs` for two strs
Contains(cs, k) ==
    \E i \in 1..(Len(cs) - Len(k) + 1) : SubSeq(cs, i, i + Len(k) - 1) = k

-----------------------------------------------------------------------------
(* 3. Support agent (agents/support_agent.py) *)

\* a coroutine suspended in `await agent.invoke_tool(tool_name, arguments)`
Await(tool_name, arguments) ==
    [raised |-> FALSE, val |-> [await |-> <<Str(tool_name), arguments>>]]

\* x.attr where type(x) has no such attribute
AttributeError(v, attr) ==
    Exc("AttributeError", Fmt("'{type}' object has no attribute '{attr}'",
                              List(<<Str(Kind(v)), Str(attr)>>)))

handle_support_intent_unguarded(intent, payload) ==
    IF Kind(payload) # "dict"
    THEN Raise(AttributeError(payload, "get"))
    ELSE IF intent = Str("show_ticket_status")
    THEN Await("list_tickets",
               Dict([customer_ids |-> List(<<Get(Val(payload), "customer_id", None)>>)]))
    ELSE Await("create_ticket", Dict([customer_id |-> Get(Val(payload), "customer_id", None),
                                      issue |-> Get(Val(payload), "text", Text(<<>>)),
                                      priority |-> Str("medium")]))

\* handle_support_intent up to its return, its raise or its first await
handle_support_intent(intent, payload) ==
    IF Kind(payload) # "dict"
    THEN Raise(AttributeError(payload, "get"))
    ELSE
    LET customer_id == Get(Val(payload), "customer_id", None)
        text == Get(Val(payload), "text", Text(<<>>))
    IN  CASE intent = Str("support_request") ->
                Return(Dict([status |-> Str("ok"),
                             answer_text |-> Fmt("Support request received: ", text)]))
          [] intent = Str("refund_request") ->
                Return(Dict([status |-> Str("ok"), answer_text |-> Str("Refund initiated.")]))
          [] intent = Str("cancel_subscription") ->
                Return(Dict([status |-> Str("ok"),
                             answer_text |-> Str("Subscription cancelled.")]))
          [] intent = Str("upgrade_request") ->
                Return(Dict([status |-> Str("ok"), answer_text |-> Str("Customer upgraded.")]))
          [] intent = Str("show_ticket_status") ->
                IF ~Truthy(customer_id)
                THEN Return(Dict([status |-> Str("error"),
                                  error |-> Str("Missing customer_id")]))
                ELSE Await("list_tickets", Dict([customer_ids |-> List(<<customer_id>>)]))
          [] intent = Str("escalate_issue") ->
                IF Kind(text) # "text"
                THEN Raise(AttributeError(text, "lower"))
                ELSE IF Contains(lower(Val(text)), <<"b", "i", "l", "l", "i", "n", "g">>)
                THEN Return(Dict([status |-> Str("need_billing_context"),
                                  note |-> Str("Require billing info from data agent")]))
                ELSE Await("create_ticket", Dict([customer_id |-> customer_id,
                                                  issue |-> text,
                                                  priority |-> Str("medium")]))
          [] OTHER ->
                Return(Dict([status |-> Str("error"),
                             error |-> Fmt("Unknown support intent: ", intent)]))

\* What the tool-execution channel does for one invoke_tool call: it fails
\* (an exception inside the try block), returns no content, or returns a
\* content block whose text is JSON (json = TRUE) or not.
ToolFails == [t |-> "fail", json |-> FALSE, body |-> None]
ToolEmpty == [t |-> "empty", json |-> FALSE, body |-> None]
ToolJson(value) == [t |-> "content", json |-> TRUE, body |-> value]
ToolText(value) == [t |-> "content", json |-> FALSE, body |-> value]

\* AgentConnector.invoke_tool, the channel doing b
invoke_tool(b) ==
    CASE b.t = "fail" ->
            Dict([status |-> Str("error"), error |-> Str("Connection closed")])
      [] b.t = "empty" ->
            Dict([status |-> Str("error"), data |-> Str("No content returned from tool")])
      [] OTHER -> b.body

\* `if not isinstance(intents, list): intents = [intents]`
as_list(intents) == IF Kind(intents) = "list" THEN Val(intents) ELSE <<intents>>

IdleHandler ==
    /\ h_agent = "none"
    /\ h_msg = EmptyMap
    /\ h_pc = "idle"
    /\ h_intents = <<>>
    /\ h_state = <<>>
    /\ h_res = <<>>
    /\ h_exc = None
    /\ h_calls = <<>>
    /\ h_tool = <<>>
    /\ h_reply = EmptyMap

\* a2a_handler, lines 82-98 and 112-114: the schema check, the reads of
\* intent/payload/correlation_id, and the creation of one coroutine per intent;
\* a ValueError goes to the except clause
SupportReceive ==
    /\ h_agent = "support_agent"
    /\ h_pc = "recv"
    /\ LET chk == check_message_schema(h_msg)
       IN  IF chk.raised
           THEN /\ h_reply' = generate_error_response(h_msg, PyStr(chk.val), uuid_n)
                /\ uuid_n' = uuid_n + UuidDraws(Get(h_msg, "correlation_id", None))
                /\ h_pc' = "replied"
                /\ UNCHANGED <<h_intents, h_state, h_res, h_tool>>
           ELSE /\ h_intents' = as_list(h_msg["intent"])
                /\ h_tool' = [i \in 1..Len(as_list(h_msg["intent"])) |-> <<>>]
                /\ h_state' = [i \in 1..Len(as_list(h_msg["intent"])) |-> "pending"]
                /\ h_res' = [i \in 1..Len(as_list(h_msg["intent"])) |-> None]
                /\ h_pc' = "gather"
                /\ UNCHANGED <<uuid_n, h_reply>>
    /\ UNCHANGED <<p_vars, s_vars, h_agent, h_msg, h_exc, h_calls, q_vars>>

\* the coroutine of the i-th intent runs to its return, raise or first await;
\* gather(return_exceptions=False) keeps the first exception raised
SupportStep(i) ==
    /\ h_agent = "support_agent"
    /\ h_pc \in {"gather", "replied"}
    /\ i \in 1..Len(h_intents)
    /\ h_state[i] = "pending"
    /\ LET r == handle_support_intent(h_intents[i], h_msg["payload"])
       IN  IF r.raised
           THEN /\ h_state' = [h_state EXCEPT ![i] = "raised"]
                /\ h_exc' = IF h_exc = None THEN r.val ELSE h_exc
                /\ UNCHANGED <<h_res, h_calls>>
           ELSE IF Kind(r.val) = "await"
           THEN /\ h_state' = [h_state EXCEPT ![i] = "tool"]
                /\ h_calls' = Append(h_calls, <<i, Val(r.val)[1], Val(r.val)[2]>>)
                /\ UNCHANGED <<h_res, h_exc>>
           ELSE /\ h_state' = [h_state EXCEPT ![i] = "done"]
                /\ h_res' = [h_res EXCEPT ![i] = r.val]
                /\ UNCHANGED <<h_exc, h_calls>>
    /\ UNCHANGED <<uuid_n, p_vars, s_vars, h_agent, h_msg, h_pc, h_intents, h_tool, h_reply,
                   q_vars>>

SupportToolReturn_wrapped(i, b) ==
    /\ h_agent = "support_agent"
    /\ h_pc \in {"gather", "replied"}
    /\ i \in 1..Len(h_intents)
    /\ h_state[i] = "tool"
    /\ h_state' = [h_state EXCEPT ![i] = "done"]
    /\ h_res' = [h_res EXCEPT ![i] = Dict([status |-> Str("ok"), data |-> invoke_tool(b)])]
    /\ h_tool' = [h_tool EXCEPT ![i] = Append(@, b)]
    /\ UNCHANGED <<uuid_n, p_vars, s_vars, h_agent, h_msg, h_pc, h_intents, h_exc, h_calls,
                   h_reply, q_vars>>

\* the invoke_tool call of the i-th intent returns; the handler returns its value
SupportToolReturn(i, b) ==
    /\ h_agent = "support_agent"
    /\ h_pc \in {"gather", "replied"}
    /\ i \in 1..Len(h_intents)
    /\ h_state[i] = "tool"
    /\ h_state' = [h_state EXCEPT ![i] = "done"]
    /\ h_res' = [h_res EXCEPT ![i] = invoke_tool(b)]
    /\ h_tool' = [h_tool EXCEPT ![i] = Append(@, b)]
    /\ UNCHANGED <<uuid_n, p_vars, s_vars, h_agent, h_msg, h_pc, h_intents, h_exc, h_calls,
                   h_reply, q_vars>>

\* results of gather, in the order of the awaitables passed to it
gather_results(res) == List(res)

\* a2a_handler, lines 99-110: every coroutine returned, gather returns the
\* results in intent order and the response envelope is built
SupportReply ==
    /\ h_agent = "support_agent"
    /\ h_pc = "gather"
    /\ \A i \in 1..Len(h_intents) : h_state[i] = "done"
    /\ h_reply' = create_a2a_message(Str("support_agent"), h_msg["from"], List(h_intents),
                                     gather_results(h_res), Str("response"),
                                     h_msg["correlation_id"], uuid_n)
    /\ uuid_n' = uuid_n + UuidDraws(h_msg["correlation_id"])
    /\ h_pc' = "replied"
    /\ UNCHANGED <<p_vars, s_vars, h_agent, h_msg, h_intents, h_state, h_res, h_exc, h_calls,
                   h_tool, q_vars>>

\* a2a_handler, lines 99 and 112-114: gather re-raises the first exception of a
\* coroutine (the others keep running) and the except clause answers
SupportFail ==
    /\ h_agent = "support_agent"
    /\ h_pc = "gather"
    /\ h_exc # None
    /\ h_reply' = generate_error_response(h_msg, PyStr(h_exc), uuid_n)
    /\ uuid_n' = uuid_n + UuidDraws(Get(h_msg, "correlation_id", None))
    /\ h_pc' = "replied"
    /\ UNCHANGED <<p_vars, s_vars, h_agent, h_msg, h_intents, h_state, h_res, h_exc, h_calls,
                   h_tool, q_vars>>

\* a2a_handler of the support agent from request to reply, for an envelope
\* each of whose awaited invoke_tool calls meets the channel behaviour b: the
\* coroutines raise only before their first await, in intent order, so the
\* exception gather re-raises is that of the first raising intent
support_a2a(msg, b, n) ==
    LET chk == check_message_schema(msg)
    IN  IF chk.raised
        THEN generate_error_response(msg, PyStr(chk.val), n)
        ELSE LET intents == as_list(msg["intent"])
                 ran == [i \in 1..Len(intents) |->
                            handle_support_intent(intents[i], msg["payload"])]
                 raising == {i \in 1..Len(intents) : ran[i].raised}
                 first == CHOOSE i \in raising : \A j \in raising : i <= j
                 results == [i \in 1..Len(intents) |->
                               IF Kind(ran[i].val) = "await" THEN invoke_tool(b)
                                                             ELSE ran[i].val]
             IN  IF raising # {}
                 THEN generate_error_response(msg, PyStr(ran[first].val), n)
                 ELSE create_a2a_message(Str("support_agent"), msg["from"], List(intents),
                                         gather_results(results), Str("response"),
                                         msg["correlation_id"], n)

-----------------------------------------------------------------------------
(* 4. Router agent: the /a2a endpoint (agents/router_agent.py) *)

\* a2a_handler of the router, lines 193-209
RouterA2A ==
    /\ h_agent = "router"
    /\ h_pc = "recv"
    /\ LET chk == check_message_schema(h_msg)
       IN  IF chk.raised
           THEN /\ h_reply' = generate_error_response(h_msg, PyStr(chk.val), uuid_n)
                /\ uuid_n' = uuid_n + UuidDraws(Get(h_msg, "correlation_id", None))
           ELSE /\ h_reply' = create_a2a_message(
                                  Str("router"), h_msg["from"], h_msg["intent"],
                                  Dict([status |-> Str("ok"),
                                        note |-> Str("Router received your message")]),
                                  Str("response"), h_msg["correlation_id"], uuid_n)
                /\ uuid_n' = uuid_n + UuidDraws(h_msg["correlation_id"])
    /\ h_pc' = "replied"
    /\ UNCHANGED <<p_vars, s_vars, h_agent, h_msg, h_intents, h_state, h_res, h_exc, h_calls,
                   h_tool, q_vars>>

-----------------------------------------------------------------------------
(* 5. Router agent: /query (agents/router_agent.py) *)

SUPPORT_AGENT_URL == Str("http://127.0.0.1:8102")
DATA_AGENT_URL == Str("http://127.0.0.1:8101")

\* any(k in text_lower for k in ks)
ContainsAny(cs, ks) == \E k \in ks : Contains(cs, k)

\* `if cond: intents.append(tag)`
AppendIf(intents, cond, tag) == IF cond THEN Append(intents, Str(tag)) ELSE intents

\* classify_intents, lines 45-70: the tags of the rules that fire, in rule order
classify_rules(text) ==
    LET text_lower == lower(text)
        i1 == AppendIf(<<>>, ContainsAny(text_lower, {<<"i", "n", "f", "o">>, <<"d", "e", "t", "a", "i", "l", "s">>}), "get_customer_info")
        i2 == AppendIf(i1, Contains(text_lower, <<"h", "i", "s", "t", "o", "r", "y">>), "get_customer_history")
        i3 == AppendIf(i2, ContainsAny(text_lower, {<<"u", "p", "d", "a", "t", "e", " ", "e", "m", "a", "i", "l">>,
                                                    <<"u", "p", "d", "a", "t", "e", " ", "m", "y", " ", "e", "m", "a", "i", "l">>,
                                                    <<"c", "h", "a", "n", "g", "e", " ", "e", "m", "a", "i", "l">>}),
                       "update_email")
        i4 == AppendIf(i3, Contains(text_lower, <<"r", "e", "f", "u", "n", "d">>), "refund_request")
        i5 == AppendIf(i4, Contains(text_lower, <<"c", "a", "n", "c", "e", "l">>), "cancel_subscription")
        i6 == AppendIf(i5, Contains(text_lower, <<"u", "p", "g", "r", "a", "d", "e">>), "upgrade_request")
        i7 == AppendIf(i6, /\ Contains(text_lower, <<"t", "i", "c", "k", "e", "t">>)
                           /\ ContainsAny(text_lower, {<<"s", "t", "a", "t", "u", "s">>, <<"c", "h", "e", "c", "k">>, <<"s", "h", "o", "w">>}),
                       "show_ticket_status")
        i8 == AppendIf(i7, /\ Contains(text_lower, <<"t", "i", "c", "k", "e", "t">>)
                           /\ ContainsAny(text_lower, {<<"o", "p", "e", "n">>, <<"c", "r", "e", "a", "t", "e">>, <<"r", "a", "i", "s", "e">>}),
                       "escalate_issue")
        i9 == AppendIf(i8, Contains(text_lower, <<"a", "c", "t", "i", "v", "e", " ", "c", "u", "s", "t", "o", "m", "e", "r", "s">>), "list_customers")
    IN  i9

classify_intents_no_fallback(text) == classify_rules(text)

\* classify_intents(text), text the characters of a str: the fired rules'
\* tags, or the fallback of lines 73-74
classify_intents(text) ==
    IF classify_rules(text) = <<>> THEN <<Str("support_request")>> ELSE classify_rules(text)

Digits == <<"0", "1", "2", "3", "4", "5", "6", "7", "8", "9">>

\* [a-zA-Z0-9]
AlphaNum ==
    {UpperCase[i] : i \in 1..Len(UpperCase)} \cup {LowerCase[i] : i \in 1..Len(LowerCase)}
    \cup {Digits[i] : i \in 1..Len(Digits)}

\* the three character classes of the pattern of line 83
LocalPartChars == AlphaNum \cup {"_", ".", "+", "-"}
DomainChars == AlphaNum \cup {"-"}
TailChars == AlphaNum \cup {"-", "."}

\* the end of the longest run of characters of class cls that starts at position
\* from (from - 1 when the run is empty): a greedy `[cls]*`; the run ends right
\* before the first position at or after from that holds no character of cls
RunEnd(cs, from, cls) ==
    LET stops == {j \in from..(Len(cs) + 1) : j = Len(cs) + 1 \/ cs[j] \notin cls}
    IN  (CHOOSE s \in stops : \A t \in stops : s <= t) - 1

\* the end of the match of [a-zA-Z0-9_.+-]+@[a-zA-Z0-9-]+\.[a-zA-Z0-9-.]+ that
\* starts at position i, 0 when there is none
EmailEndAt(cs, i) ==
    LET at == RunEnd(cs, i, LocalPartChars) + 1
    IN  IF ~(at > i /\ at <= Len(cs) /\ cs[at] = "@") THEN 0
        ELSE LET dot == RunEnd(cs, at + 1, DomainChars) + 1
             IN  IF ~(dot > at + 1 /\ dot <= Len(cs) /\ cs[dot] = ".") THEN 0
                 ELSE LET end == RunEnd(cs, dot + 1, TailChars)
                      IN  IF end > dot THEN end ELSE 0

extract_email_never_matches(text) == None

\* extract_email(text): group 1 of the leftmost match, None without a match
extract_email(text) ==
    LET starts == {i \in 1..Len(text) : EmailEndAt(text, i) > 0}
    IN  IF starts = {} THEN None
        ELSE LET i == CHOOSE i \in starts : \A j \in starts : i <= j
             IN  Text(SubSeq(text, i, EmailEndAt(text, i)))

DataIntents == {Str("get_customer_info"), Str("get_customer_history"), Str("update_email"),
                Str("list_customers")}

EscalatedSupportIntents_without_escalate ==
    {Str("refund_request"), Str("cancel_subscription"), Str("upgrade_request")}

EscalatedSupportIntents == {Str("refund_request"), Str("cancel_subscription"),
                            Str("upgrade_request"), Str("escalate_issue")}

\* the payload build_agent_task puts in the envelope
task_payload(intent, customer_id, text) ==
    IF intent \in DataIntents
    THEN LET base == [customer_id |-> customer_id]
             with_status == IF intent = Str("list_customers")
                            THEN base @@ [status |-> Str("active")] ELSE base
             new_email == extract_email(Val(text))
         IN  IF intent = Str("update_email")
             THEN Dict(with_status @@ [updates |-> IF Truthy(new_email)
                                                  THEN Dict([email |-> new_email])
                                                  ELSE Dict(EmptyMap)])
             ELSE Dict(with_status)
    ELSE Dict([customer_id |-> customer_id, text |-> text])

\* build_agent_task(intent, customer_id, text), called when n uuids have been drawn
build_agent_task(intent, customer_id, text, n) ==
    [target_url |-> IF intent \in DataIntents THEN DATA_AGENT_URL ELSE SUPPORT_AGENT_URL,
     msg |-> create_a2a_message(
                 Str("router"),
                 IF intent \in DataIntents THEN Str("customer_data_agent")
                                           ELSE Str("support_agent"),
                 intent, task_payload(intent, customer_id, text), Str("request"), None, n),
     intent |-> intent,
     requires_escalation |-> \/ intent = Str("update_email")
                             \/ intent \in EscalatedSupportIntents]

\* the loop of lines 141-144: one task per intent, each drawing two uuids
build_tasks(intents, customer_id, text, n) ==
    [i \in 1..Len(intents) |-> build_agent_task(intents[i], customer_id, text, n + 2 * (i - 1))]

status_and_data_whole_payload(res) ==
    CASE Kind(res) = "exc" -> [status |-> Str("error"), data |-> PyStr(res)]
      [] Kind(res) = "dict" ->
            IF "payload" \in DOMAIN Val(res)
            THEN [status |-> Str("ok"), data |-> Val(res)["payload"]]
            ELSE [status |-> Get(Val(res), "status", Str("unknown")),
                  data |-> IF Truthy(Get(Val(res), "data", None))
                           THEN Val(res)["data"]
                           ELSE Get(Val(res), "error", None)]
      [] OTHER -> [status |-> Str("error"), data |-> None]

\* lines 152-178: the status and data derived from one result of gather
status_and_data(res) ==
    CASE Kind(res) = "exc" -> [status |-> Str("error"), data |-> PyStr(res)]
      [] Kind(res) = "dict" ->
            IF "payload" \in DOMAIN Val(res)
            THEN LET payload_list == Val(res)["payload"]
                 IN  IF Kind(payload_list) = "list" /\ Len(Val(payload_list)) > 0
                     THEN LET data == Val(payload_list)[1]
                          IN  [status |-> IF Kind(data) = "dict"
                                          THEN Get(Val(data), "status", Str("ok"))
                                          ELSE Str("ok"),
                               data |-> data]
                     ELSE [status |-> Str("ok"), data |-> payload_list]
            ELSE [status |-> Get(Val(res), "status", Str("unknown")),
                  data |-> IF Truthy(Get(Val(res), "data", None))
                           THEN Val(res)["data"]
                           ELSE Get(Val(res), "error", None)]
      [] OTHER -> [status |-> Str("error"), data |-> None]

outcome_escalation_is_error(meta, res) ==
    Dict([intent |-> meta.intent,
          status |-> IF meta.requires_escalation THEN Str("error")
                                                 ELSE status_and_data(res).status,
          data |-> status_and_data(res).data,
          requires_escalation |-> Bool(meta.requires_escalation)])

\* lines 180-185: the Outcome appended for one (meta, res) pair
outcome(meta, res) ==
    Dict([intent |-> meta.intent,
          status |-> status_and_data(res).status,
          data |-> status_and_data(res).data,
          requires_escalation |-> Bool(meta.requires_escalation)])

normalize_shared_result(task_metadata, results_raw) ==
    [i \in 1..Len(task_metadata) |->
        outcome(task_metadata[i], results_raw[Len(results_raw)])]

normalize_drop_exceptions(task_metadata, results_raw) ==
    LET kept == SelectSeq([i \in 1..Len(task_metadata) |-> i],
                          LAMBDA i : Kind(results_raw[i]) # "exc")
    IN  [k \in 1..Len(kept) |-> outcome(task_metadata[kept[k]], results_raw[kept[k]])]

\* lines 150-185: `for meta, res in zip(task_metadata, results_raw)`
normalize(task_metadata, results_raw) ==
    [i \in 1..Len(task_metadata) |-> outcome(task_metadata[i], results_raw[i])]

missing_input_absent_only(body) ==
    "text" \notin DOMAIN body \/ "customer_id" \notin DOMAIN body

missing_input_text_only(body) == ~Truthy(Get(body, "text", None))

\* line 133: `if not text or not customer_id`
missing_input(body) ==
    \/ ~Truthy(Get(body, "text", None))
    \/ ~Truthy(Get(body, "customer_id", None))

gather_returns_never(bpc) == FALSE

gather_returns_first_completed(bpc) == \E i \in 1..Len(bpc) : bpc[i] = "done"

\* line 147: `await asyncio.gather(*tasks, return_exceptions=True)` returns
\* once every awaitable has a result or an exception
gather_returns(bpc) == \A i \in 1..Len(bpc) : bpc[i] = "done"

IdleQuery ==
    /\ q_body = EmptyMap
    /\ q_pc = "idle"
    /\ q_meta = <<>>
    /\ q_sent = <<>>
    /\ q_bpc = <<>>
    /\ q_raw = <<>>
    /\ q_order = <<>>
    /\ q_posts = 0
    /\ q_resp = None

\* query_endpoint, lines 129-144: the required-field check, classification and
\* the building of one task per intent.  text.lower() raises for a text that is
\* not a str: the request ends in an unhandled exception.
QueryReceive ==
    /\ q_pc = "recv"
    /\ LET text == Get(q_body, "text", None)
           customer_id == Get(q_body, "customer_id", None)
       IN  IF missing_input(q_body)
           THEN /\ q_resp' = Dict([status |-> Str("error"),
                                   message |-> Str("Missing 'text' or 'customer_id'")])
                /\ q_pc' = "done"
                /\ UNCHANGED <<uuid_n, q_meta, q_sent, q_bpc, q_raw>>
           ELSE IF Kind(text) # "text"
           THEN /\ q_resp' = AttributeError(text, "lower")
                /\ q_pc' = "crashed"
                /\ UNCHANGED <<uuid_n, q_meta, q_sent, q_bpc, q_raw>>
           ELSE \E intents \in {classify_intents(Val(text))} :
                \E tasks \in {build_tasks(intents, customer_id, text, uuid_n)} :
                    /\ q_meta' = [i \in 1..Len(tasks) |->
                                    [intent |-> tasks[i].intent,
                                     requires_escalation |-> tasks[i].requires_escalation]]
                    /\ q_sent' = [i \in 1..Len(tasks) |->
                                    [target_url |-> tasks[i].target_url, msg |-> tasks[i].msg]]
                    /\ q_bpc' = [i \in 1..Len(tasks) |-> "created"]
                    /\ q_raw' = [i \in 1..Len(tasks) |-> None]
                    /\ uuid_n' = uuid_n + 2 * Len(tasks)
                    /\ q_pc' = "gather"
                    /\ UNCHANGED q_resp
    /\ UNCHANGED <<p_vars, s_vars, h_vars, q_body, q_order, q_posts>>

\* asyncio.to_thread(agent.send_message, target_url, msg): the thread runs
\* send_message up to its requests.post call (the schema check of lines 70-72)
BranchStart(i) ==
    /\ q_pc = "gather"
    /\ i \in 1..Len(q_bpc)
    /\ q_bpc[i] = "created"
    /\ LET chk == check_message_schema(q_sent[i].msg)
       IN  IF chk.raised
           THEN /\ q_raw' = [q_raw EXCEPT ![i] = except_return(chk)]
                /\ q_bpc' = [q_bpc EXCEPT ![i] = "done"]
                /\ q_order' = Append(q_order, i)
           ELSE /\ q_bpc' = [q_bpc EXCEPT ![i] = "post"]
                /\ UNCHANGED <<q_raw, q_order>>
    /\ UNCHANGED <<uuid_n, p_vars, s_vars, h_vars, q_body, q_pc, q_meta, q_sent, q_posts, q_resp>>

\* the requests.post call of branch i ends, the transport doing o, and
\* send_message returns (lines 74-82)
BranchPost(i, o) ==
    /\ q_pc = "gather"
    /\ i \in 1..Len(q_bpc)
    /\ q_bpc[i] = "post"
    /\ q_raw' = [q_raw EXCEPT ![i] = post_and_return(o)]
    /\ q_bpc' = [q_bpc EXCEPT ![i] = "done"]
    /\ q_order' = Append(q_order, i)
    /\ q_posts' = q_posts + 1
    /\ UNCHANGED <<uuid_n, p_vars, s_vars, h_vars, q_body, q_pc, q_meta, q_sent, q_resp>>

\* the requests.post call of a branch addressed to the support agent is
\* answered by that agent's /a2a handler with status 200, its tool channel
\* doing b, and send_message returns the reply (lines 74-77)
BranchPostSupport(i, b) ==
    /\ q_pc = "gather"
    /\ i \in 1..Len(q_bpc)
    /\ q_bpc[i] = "post"
    /\ q_sent[i].target_url = SUPPORT_AGENT_URL
    /\ q_raw' = [q_raw EXCEPT ![i] =
                    post_and_return(Http(200, Dict(support_a2a(q_sent[i].msg, b, uuid_n))))]
    /\ uuid_n' = uuid_n + UuidDraws(Get(q_sent[i].msg, "correlation_id", None))
    /\ q_bpc' = [q_bpc EXCEPT ![i] = "done"]
    /\ q_order' = Append(q_order, i)
    /\ q_posts' = q_posts + 1
    /\ UNCHANGED <<p_vars, s_vars, h_vars, q_body, q_pc, q_meta, q_sent, q_resp>>

\* the awaitable of branch i raises instead of running send_message (the
\* executor cannot start the thread); gather(return_exceptions=True) collects
\* the exception as that branch's result
BranchRaise(i) ==
    /\ q_pc = "gather"
    /\ i \in 1..Len(q_bpc)
    /\ q_bpc[i] = "created"
    /\ q_raw' = [q_raw EXCEPT ![i] = Exc("RuntimeError", Str("can't start new thread"))]
    /\ q_bpc' = [q_bpc EXCEPT ![i] = "done"]
    /\ q_order' = Append(q_order, i)
    /\ UNCHANGED <<uuid_n, p_vars, s_vars, h_vars, q_body, q_pc, q_meta, q_sent, q_posts, q_resp>>

\* lines 147-188: gather returns once every branch is done; the results are
\* normalized in task order and the aggregate is returned
QueryJoin ==
    /\ q_pc = "gather"
    /\ gather_returns(q_bpc)
    /\ q_resp' = Dict([status |-> Str("ok"), results |-> List(normalize(q_meta, q_raw))])
    /\ q_pc' = "done"
    /\ UNCHANGED <<uuid_n, p_vars, s_vars, h_vars, q_body, q_meta, q_sent, q_bpc, q_raw, q_order,
                   q_posts>>

-----------------------------------------------------------------------------
(* Inputs of the envelope protocol *)

Fields == {"message_id", "from", "to", "type", "intent", "payload", "correlation_id",
           "timestamp"}

\* a complete envelope as a peer could have sent it
BaseEnvelope(intent, payload, corr_id) ==
    [message_id |-> Str("m-1"), from |-> Str("router"), to |-> Str("support_agent"),
     type |-> Str("request"), intent |-> intent, payload |-> payload,
     correlation_id |-> corr_id, timestamp |-> Str("t-1")]

Restrict(f, keys) == [k \in DOMAIN f \cap keys |-> f[k]]

\* every envelope obtained by dropping a set of fields
PartialEnvelopes(base) == {Restrict(base, Fields \ S) : S \in SUBSET Fields}

BuildIntents == {Str("refund_request"), List(<<Str("refund_request"), Str("nope")>>), List(<<>>)}

BuildContents == {None, Dict(EmptyMap), Dict([customer_id |-> Num(1)]), List(<<>>),
                  List(<<Dict([status |-> Str("ok")])>>)}

BuildTypes == {Str("request"), Str("response"), Str("error")}

BuildCorrIds == {None, Str(""), Str("c-1")}

BuildArgs ==
    [sender : {Str("router")}, recipient : {Str("support_agent")}, intent : BuildIntents,
     content : BuildContents, type : BuildTypes, corr_id : BuildCorrIds]

NoArgs == [sender |-> None, recipient |-> None, intent |-> None, content |-> None,
           type |-> None, corr_id |-> None]

NoRet == Return(None)

-----------------------------------------------------------------------------
(* The envelope protocol applied to drawn inputs *)

MaxOps == 3

IdleEnvelope ==
    /\ p_in = NoArgs
    /\ p_msg = EmptyMap
    /\ p_src = "none"
    /\ p_orig = EmptyMap
    /\ p_op = "none"
    /\ p_ret = NoRet
    /\ p_steps = 0

DefaultArgs ==
    [sender |-> Str("router"), recipient |-> Str("support_agent"),
     intent |-> Str("refund_request"), content |-> None, type |-> Str("request"),
     corr_id |-> None]

\* either the build arguments or the received envelope is drawn
InitEnvelope ==
    /\ uuid_n = 0
    /\ \/ /\ p_in \in BuildArgs
          /\ p_msg = BaseEnvelope(Str("refund_request"), Dict([customer_id |-> Num(1)]),
                                  Str("c-1"))
       \/ /\ p_in = DefaultArgs
          /\ \E corr_id \in {Str(""), Str("c-1")} :
                p_msg \in PartialEnvelopes(BaseEnvelope(Str("refund_request"),
                                              Dict([customer_id |-> Num(1)]), corr_id))
    /\ p_src = "input"
    /\ p_orig = EmptyMap
    /\ p_op = "none"
    /\ p_ret = NoRet
    /\ p_steps = 0
    /\ IdleSend
    /\ IdleHandler
    /\ IdleQuery

\* p_msg := create_a2a_message(**p_in)
EnvBuild ==
    /\ p_steps < MaxOps
    /\ p_msg' = create_a2a_message(p_in.sender, p_in.recipient, p_in.intent, p_in.content,
                                   p_in.type, p_in.corr_id, uuid_n)
    /\ uuid_n' = uuid_n + UuidDraws(p_in.corr_id)
    /\ p_src' = "built"
    /\ p_op' = "build"
    /\ p_steps' = p_steps + 1
    /\ UNCHANGED <<p_in, p_orig, p_ret, s_vars, h_vars, q_vars>>

\* check_message_schema(p_msg)
EnvValidate ==
    /\ p_steps < MaxOps
    /\ p_ret' = check_message_schema(p_msg)
    /\ p_op' = "validate"
    /\ p_steps' = p_steps + 1
    /\ UNCHANGED <<uuid_n, p_in, p_msg, p_src, p_orig, s_vars, h_vars, q_vars>>

\* p_msg := generate_error_response(p_msg, "boom")
EnvErrorReply ==
    /\ p_steps < MaxOps
    /\ p_msg' = generate_error_response(p_msg, Str("boom"), uuid_n)
    /\ uuid_n' = uuid_n + UuidDraws(Get(p_msg, "correlation_id", None))
    /\ p_orig' = p_msg
    /\ p_src' = "error_reply"
    /\ p_op' = "error_reply"
    /\ p_steps' = p_steps + 1
    /\ UNCHANGED <<p_in, p_ret, s_vars, h_vars, q_vars>>

NextEnvelope == EnvBuild \/ EnvValidate \/ EnvErrorReply

SpecEnvelope == InitEnvelope /\ [][NextEnvelope]_vars

-----------------------------------------------------------------------------
(* Claims about the envelope protocol (checked under SpecEnvelope) *)

\* C8. Build/validate round-trip: whatever the sender, recipient, intent (one
\* tag or a list), payload (None and empty included), type and correlation id,
\* the envelope create_a2a_message returns passes check_message_schema; so does
\* every error reply generate_error_response builds, even from an envelope that
\* itself lacks fields.
C8_BuildValidates ==
    (p_op = "validate" /\ p_src \in {"built", "error_reply"}) => ~p_ret.raised

\* C8 witness: an envelope built with no payload and no correlation id was validated.
C8_Witness ==
    /\ p_op = "validate"
    /\ p_src = "built"
    /\ p_in.content = None
    /\ p_in.corr_id = None
    /\ Kind(p_in.intent) = "list"
    /\ ~p_ret.raised

C9_Required == {"message_id", "from", "to", "type", "intent", "payload", "correlation_id"}

\* the field names listed in the ValueError check_message_schema raised
C9_Reported(ret) ==
    LET names == Val(Val(Val(ret.val)[2])[2])
    IN  {Val(names[i]) : i \in 1..Len(names)}

\* C9. Validation reports exactly the missing fields: when a non-empty set S of
\* the seven required fields is absent, check_message_schema raises and the
\* field names in its message are exactly S; when none is absent (timestamp may
\* be) it does not raise.
C9_ExactlyMissing ==
    p_op = "validate" =>
        LET S == C9_Required \ DOMAIN p_msg
        IN  /\ S # {} => (p_ret.raised /\ C9_Reported(p_ret) = S)
            /\ S = {} => ~p_ret.raised

\* C9 witness: two required fields and the timestamp are absent and validation
\* reported the two.
C9_Witness ==
    /\ p_op = "validate"
    /\ p_src = "input"
    /\ DOMAIN p_msg = Fields \ {"payload", "correlation_id", "timestamp"}
    /\ p_ret.raised
    /\ C9_Reported(p_ret) = {"payload", "correlation_id"}

\* the last call was generate_error_response(p_orig, "boom") and returned p_msg
C19_Replied == p_op = "error_reply"

\* from and to degrade to "unknown" in the reply (reply.from for a missing to,
\* reply.to for a missing from), and the reply is a complete envelope
C19_AddressDegrades ==
    /\ DOMAIN p_msg = Fields
    /\ "to" \notin DOMAIN p_orig => p_msg["from"] = Str("unknown")
    /\ "from" \notin DOMAIN p_orig => p_msg["to"] = Str("unknown")

\* C19. error_reply is total and degrades to "unknown": for every original
\* message, whatever subset of the required fields it lacks,
\* generate_error_response returns an envelope, and each of from, to and intent
\* missing in the original appears as "unknown" in the reply (reply.from for a
\* missing to, reply.to for a missing from, reply.intent for a missing intent).
C19_DegradesToUnknown ==
    C19_Replied
    => /\ C19_AddressDegrades
       /\ "intent" \notin DOMAIN p_orig => p_msg["intent"] = Str("unknown")

\* C19 as the code has it: the same, except that a missing intent appears as
\* "error" in the reply; the fields the original has are carried over.
C19_DegradesToDefaults ==
    C19_Replied
    => /\ C19_AddressDegrades
       /\ "intent" \notin DOMAIN p_orig => p_msg["intent"] = Str("error")
       /\ "to" \in DOMAIN p_orig => p_msg["from"] = p_orig["to"]
       /\ "from" \in DOMAIN p_orig => p_msg["to"] = p_orig["from"]
       /\ "intent" \in DOMAIN p_orig => p_msg["intent"] = p_orig["intent"]

\* C19 is exercised: an error reply was built from an original that lacks
\* from, to and intent (and more).
C19_Witness ==
    /\ C19_Replied
    /\ DOMAIN p_orig = {"message_id", "payload"}
    /\ p_msg["from"] = Str("unknown")
    /\ p_msg["to"] = Str("unknown")
    /\ p_msg["intent"] = Str("error")

\* C20. error_reply addressing and shape: for every original envelope that
\* carries from, to and correlation_id, generate_error_response returns an
\* envelope with type = error, to = original.from, from = original.to,
\* correlation_id = original.correlation_id and payload = {error: error_text}.
C20_AddressingAndShape ==
    (C19_Replied /\ {"from", "to", "correlation_id"} \subseteq DOMAIN p_orig)
    => /\ p_msg["type"] = Str("error")
       /\ p_msg["to"] = p_orig["from"]
       /\ p_msg["from"] = p_orig["to"]
       /\ p_msg["correlation_id"] = p_orig["correlation_id"]
       /\ p_msg["payload"] = Dict([error |-> Str("boom")])

\* C20, the part the code keeps: the same for an original whose correlation_id
\* is truthy.
C20_ShapeForTruthyId ==
    (C19_Replied /\ {"from", "to", "correlation_id"} \subseteq DOMAIN p_orig
       /\ Truthy(p_orig["correlation_id"]))
    => /\ p_msg["type"] = Str("error")
       /\ p_msg["to"] = p_orig["from"]
       /\ p_msg["from"] = p_orig["to"]
       /\ p_msg["correlation_id"] = p_orig["correlation_id"]
       /\ p_msg["payload"] = Dict([error |-> Str("boom")])

-----------------------------------------------------------------------------
(* Inputs of send_message *)

ReplyEnvelope(payload, type) ==
    Dict([message_id |-> Str("m-9"), from |-> Str("support_agent"), to |-> Str("router"),
          type |-> Str(type), intent |-> List(<<Str("refund_request")>>), payload |-> payload,
          correlation_id |-> Str("c-1"), timestamp |-> Str("t-9")])

SendOutcomes ==
    {Refused, TimedOut,
     Http(200, ReplyEnvelope(List(<<Dict([status |-> Str("ok"),
                                          answer_text |-> Str("Refund initiated.")])>>),
                             "response")),
     HttpNotJson(200, Str("<html>")),
     Http(500, Str("Internal Server Error")),
     HttpNotJson(404, Str("Not Found"))}

SendMessages ==
    LET base == BaseEnvelope(Str("refund_request"), Dict([customer_id |-> Num(1)]), Str("c-1"))
    IN  {base, Restrict(base, {})}
        \cup {Restrict(base, Fields \ {f}) : f \in Fields}
        \cup {Restrict(base, Fields \ {"payload", "correlation_id"})}

InitSend ==
    /\ uuid_n = 0
    /\ IdleEnvelope
    /\ s_msg \in SendMessages
    /\ s_sched \in [1..max_attempts -> SendOutcomes]
    /\ s_pc = "start"
    /\ s_attempts = 0
    /\ s_sleeps = <<>>
    /\ s_ret = None
    /\ IdleHandler
    /\ IdleQuery

NextSend == SendCheck \/ SendPost

SpecSend == InitSend /\ [][NextSend]_vars

-----------------------------------------------------------------------------
(* Claims about send_message (checked under SpecSend) *)

\* the envelope carries the seven required fields
HasRequired(m) == C9_Required \subseteq DOMAIN m

\* connection refused / timeout: no response was received
TransportFails(o) == o.t \in {"refused", "timeout"}

\* the target replied 200 with a JSON body
Succeeds(o) == o.t = "http" /\ o.code = 200 /\ o.json

\* the target responded with a non-success status code
NonSuccess(o) == o.t = "http" /\ o.code # 200

\* the "status" entry of a returned dict, None when there is none
StatusOf(ret) ==
    IF Kind(ret) = "dict" /\ "status" \in DOMAIN Val(ret) THEN Val(ret)["status"] ELSE None

\* C2. Retry until success: max_attempts = 3, a valid envelope, the transport
\* fails on attempts 1 and 2 and succeeds on attempt 3: send_message makes a
\* third attempt and returns status "ok".
C2_RetryUntilSuccess ==
    (/\ s_pc = "done"
     /\ HasRequired(s_msg)
     /\ TransportFails(s_sched[1])
     /\ TransportFails(s_sched[2])
     /\ Succeeds(s_sched[3]))
    => (s_attempts = 3 /\ StatusOf(s_ret) = Str("ok"))

\* C3. Retry exhaustion: max_attempts = 3, a valid envelope, the transport fails
\* on every attempt: send_message makes exactly 3 attempts and returns status
\* "error" with the detail "attempts exhausted".
C3_RetryExhaustion ==
    (/\ s_pc = "done"
     /\ HasRequired(s_msg)
     /\ \A k \in 1..max_attempts : TransportFails(s_sched[k]))
    => (/\ s_attempts = max_attempts
        /\ StatusOf(s_ret) = Str("error")
        /\ Get(Val(s_ret), "data", None) = Str("attempts exhausted"))

\* the number of failed attempts that are followed by another attempt
C4_Retries ==
    LET Failing(k) == \A j \in 1..k : TransportFails(s_sched[j])
        ks == {k \in 1..(max_attempts - 1) : Failing(k)}
    IN  Cardinality(ks)

\* C4. Backoff schedule: after the k-th failed attempt, k < max_attempts,
\* send_message sleeps base_delay * 2^(k-1) before attempt k+1 (d, 2d, ...), and
\* it does not sleep after the last attempt or after a successful one.
C4_BackoffSchedule ==
    (s_pc = "done" /\ HasRequired(s_msg))
    => \E d \in 1..4 : s_sleeps = [k \in 1..C4_Retries |-> d * 2^(k - 1)]

\* C5. Terminal application error: an attempt answered with a non-success
\* status code is the last attempt of the call, whatever budget remains, and
\* send_message returns status "error".
C5_NonSuccessIsTerminal ==
    \A k \in 1..s_attempts :
        NonSuccess(s_sched[k]) =>
            (k = s_attempts /\ s_pc = "done" /\ StatusOf(s_ret) = Str("error"))

\* C5 witness: attempt 1 was answered 500 and attempt 2 would have succeeded.
C5_Witness ==
    /\ s_pc = "done"
    /\ s_attempts = 1
    /\ s_sched[1] = Http(500, Str("Internal Server Error"))
    /\ Succeeds(s_sched[2])
    /\ StatusOf(s_ret) = Str("error")

\* C6. Schema fail-fast: for an envelope lacking a required field send_message
\* never posts (zero delivery attempts, no retry) and returns an error dict
\* whose text is the schema error.
C6_SchemaFailFast ==
    ~HasRequired(s_msg) =>
        /\ s_pc # "post"
        /\ s_attempts = 0
        /\ s_pc = "done" =>
              /\ StatusOf(s_ret) = Str("error")
              /\ Kind(Val(s_ret)["error"]) = "fmt"
              /\ Val(Val(s_ret)["error"])[1] = Str("Invalid A2A Message. Missing: ")

\* C6 witness: a send of an envelope without payload ended with no attempt made.
C6_Witness ==
    /\ s_pc = "done"
    /\ DOMAIN s_msg = Fields \ {"payload"}
    /\ \A k \in 1..max_attempts : Succeeds(s_sched[k])
    /\ s_attempts = 0
    /\ StatusOf(s_ret) = Str("error")

\* the target answered the last delivery attempt with status 200 and a JSON body
C21_RepliedSuccessfully == s_attempts >= 1 /\ Succeeds(s_sched[s_attempts])

\* C21. send returns a normalized outcome on every path: for every envelope
\* and every transport behaviour (success reply, non-success status, connection
\* failure or timeout, schema error) send_message returns a map {status, data},
\* status one of ok and error, status = ok exactly when the target replied
\* successfully, data holding the reply or the error detail.
C21_NormalizedOutcome ==
    s_pc = "done"
    => /\ Kind(s_ret) = "dict"
       /\ DOMAIN Val(s_ret) = {"status", "data"}
       /\ Val(s_ret)["status"] \in {Str("ok"), Str("error")}
       /\ Val(s_ret)["status"] = Str("ok") <=> C21_RepliedSuccessfully
       /\ C21_RepliedSuccessfully => Val(s_ret)["data"] = s_sched[s_attempts].body

\* C21, the part the code keeps: every path on which the target did not reply
\* successfully returns {status: "error", error: detail}, and a successful
\* reply is returned as it came.
C21_FailuresAreErrorMaps ==
    s_pc = "done"
    => IF C21_RepliedSuccessfully
       THEN s_ret = s_sched[s_attempts].body
       ELSE /\ Kind(s_ret) = "dict"
            /\ DOMAIN Val(s_ret) = {"status", "error"}
            /\ Val(s_ret)["status"] = Str("error")

-----------------------------------------------------------------------------
(* One envelope delivered to an agent's /a2a endpoint *)

MaxIntents == 3

HandlerTags == {Str("support_request"), Str("show_ticket_status"), Str("escalate_issue"),
                Str("nope")}

RECURSIVE SeqsUpTo(_, _)
\* the sequences over S of length at most n
SeqsUpTo(S, n) ==
    IF n = 0 THEN {<<>>}
    ELSE LET shorter == SeqsUpTo(S, n - 1)
         IN  shorter \cup {Append(q, x) : q \in shorter, x \in S}

HandlerIntents == HandlerTags \cup {List(q) : q \in SeqsUpTo(HandlerTags, MaxIntents)}

TextHelp == Text(<<"h", "e", "l", "p", " ", "m", "e">>)
TextBilling == Text(<<"B", "i", "l", "l", "i", "n", "g", " ", "i", "s", "s", "u", "e">>)

HandlerPayloads ==
    {Dict([customer_id |-> Num(1), text |-> TextHelp]),
     Dict([customer_id |-> Num(1), text |-> TextBilling]),
     Dict([customer_id |-> Num(1), text |-> None]),
     Dict([text |-> TextBilling]),
     Dict(EmptyMap),
     List(<<>>)}

HandlerCorrIds == {Str("c-1"), Str("")}

ToolBehaviours ==
    {ToolFails, ToolEmpty, ToolText(Str("Error executing tool")),
     ToolJson(Dict([id |-> Num(7), status |-> Str("open")]))}

\* complete envelopes, and envelopes lacking fields
HandlerMessages ==
    {BaseEnvelope(i, pl, c) : i \in HandlerIntents, pl \in HandlerPayloads, c \in HandlerCorrIds}
    \cup {Restrict(BaseEnvelope(List(<<Str("support_request"), Str("escalate_issue")>>),
                                Dict([customer_id |-> Num(1), text |-> TextHelp]), Str("c-1")),
                   Fields \ S) :
            S \in {{"correlation_id"}, {"payload"}, {"intent", "from"}, {"to"}, {"timestamp"},
                   {"from", "to", "intent", "correlation_id"}}}

InitHandler ==
    /\ uuid_n = 0
    /\ IdleEnvelope
    /\ IdleSend
    /\ h_agent \in {"support_agent", "router"}
    /\ h_msg \in HandlerMessages
    /\ h_pc = "recv"
    /\ h_intents = <<>>
    /\ h_state = <<>>
    /\ h_res = <<>>
    /\ h_exc = None
    /\ h_calls = <<>>
    /\ h_tool = <<>>
    /\ h_reply = EmptyMap
    /\ IdleQuery

NextHandler ==
    \/ SupportReceive
    \/ \E i \in 1..Len(h_intents) : SupportStep(i)
    \/ \E i \in 1..Len(h_intents), b \in ToolBehaviours : SupportToolReturn(i, b)
    \/ SupportReply
    \/ SupportFail
    \/ RouterA2A

SpecHandler == InitHandler /\ [][NextHandler]_vars

-----------------------------------------------------------------------------
(* Claims about the /a2a handlers (checked under SpecHandler) *)

\* C7. Correlation preservation: every reply an /a2a handler (support agent or
\* router) produces for a received envelope R, the response as well as the
\* error reply of generate_error_response, has R's correlation_id.
C7_CorrelationPreserved ==
    (h_pc = "replied" /\ "correlation_id" \in DOMAIN h_msg)
    => h_reply["correlation_id"] = h_msg["correlation_id"]

\* C7, the part the code keeps: a correlation_id that is truthy (a non-empty
\* str) is echoed by every reply.
C7_TruthyIdIsEchoed ==
    (h_pc = "replied" /\ "correlation_id" \in DOMAIN h_msg /\ Truthy(h_msg["correlation_id"]))
    => h_reply["correlation_id"] = h_msg["correlation_id"]

\* the tags handle_support_intent has a branch for
C10_Registered ==
    {Str("support_request"), Str("refund_request"), Str("cancel_subscription"),
     Str("upgrade_request"), Str("show_ticket_status"), Str("escalate_issue")}

\* the envelope carries [A, unknown, B] with A and B registered, and was answered
C10_Case ==
    /\ h_agent = "support_agent"
    /\ h_pc = "replied"
    /\ HasRequired(h_msg)
    /\ Len(h_intents) = 3
    /\ h_intents[1] \in C10_Registered
    /\ h_intents[2] \notin C10_Registered
    /\ h_intents[3] \in C10_Registered

\* what the i-th intent yields when it is the only intent of the envelope
\* (for a handler that calls a tool: what that call returned)
C10_Alone(i) ==
    LET r == handle_support_intent(h_intents[i], h_msg["payload"])
    IN  IF Kind(r.val) = "await" THEN h_res[i] ELSE r.val

C10_ThreeResults ==
    /\ Kind(h_reply["payload"]) = "list"
    /\ Len(Val(h_reply["payload"])) = 3
    /\ StatusOf(Val(h_reply["payload"])[2]) = Str("error")
    /\ Val(h_reply["payload"])[1] = C10_Alone(1)
    /\ Val(h_reply["payload"])[3] = C10_Alone(3)

\* C10. Unknown-intent isolation: an envelope with intents [A, unknown, B], A
\* and B registered, is answered by one reply whose payload holds exactly three
\* per-intent results in that order, the middle one with status "error", the
\* results of A and B as if each had been sent alone.
C10_UnknownIntentIsolation == C10_Case => C10_ThreeResults

\* C10, the part the code keeps: the same, for the envelopes none of whose
\* handlers raises (the reply is a response envelope).
C10_IsolationWhenNoneRaises ==
    (C10_Case /\ h_reply["type"] = Str("response")) => C10_ThreeResults

\* the support agent answered a schema-valid envelope
C16_ValidAnswered ==
    /\ h_agent = "support_agent"
    /\ h_pc = "replied"
    /\ HasRequired(h_msg)

\* the handler of the i-th intent raises
C16_Raises(i) == handle_support_intent(h_intents[i], h_msg["payload"]).raised

\* C16. Per-intent errors never abort the envelope: when the handler of one
\* intent of a valid multi-intent envelope raises, the support agent still
\* answers with a response envelope holding one result per intent, an error
\* entry for the failed intent and the normal results for the others; the
\* whole-envelope error reply is kept for malformed envelopes.
C16_PerIntentErrorsDoNotAbort ==
    /\ (C16_ValidAnswered /\ Len(h_intents) >= 2)
       => /\ h_reply["type"] = Str("response")
          /\ Kind(h_reply["payload"]) = "list"
          /\ Len(Val(h_reply["payload"])) = Len(h_intents)
          /\ \A i \in 1..Len(h_intents) :
                IF C16_Raises(i)
                THEN StatusOf(Val(h_reply["payload"])[i]) = Str("error")
                ELSE Val(h_reply["payload"])[i] = C10_Alone(i)
    /\ C16_ValidAnswered => h_reply["type"] # Str("error")

\* C16, the part the code keeps: an intent without a handler is answered by an
\* error entry of its own, and so is a failing tool call, while no handler raises.
C16_ReturnedErrorsDoNotAbort ==
    (C16_ValidAnswered /\ Len(h_intents) >= 2
       /\ \A i \in 1..Len(h_intents) : ~C16_Raises(i))
    => /\ h_reply["type"] = Str("response")
       /\ Len(Val(h_reply["payload"])) = Len(h_intents)
       /\ \A i \in 1..Len(h_intents) : Val(h_reply["payload"])[i] = C10_Alone(i)

\* C17. Handler reply is an ordered per-intent sequence: for every valid
\* envelope, its intent one tag or a sequence of k tags for any k, the payload
\* of the support agent's reply is a sequence of exactly as many results as
\* there are intents, the i-th being the result of the i-th intent, in
\* whatever order the handlers finished.
C17_OrderedPerIntentSequence ==
    C16_ValidAnswered
    => /\ Kind(h_reply["payload"]) = "list"
       /\ Len(Val(h_reply["payload"])) = Len(as_list(h_msg["intent"]))
       /\ \A i \in 1..Len(h_intents) : Val(h_reply["payload"])[i] = C10_Alone(i)

\* C17, the part the code keeps: the same for at least one intent, none of
\* whose handlers raises.
C17_OrderedWhenNonEmptyAndNoneRaises ==
    (C16_ValidAnswered /\ Len(h_intents) >= 1
       /\ \A i \in 1..Len(h_intents) : ~C16_Raises(i))
    => /\ Kind(h_reply["payload"]) = "list"
       /\ Len(Val(h_reply["payload"])) = Len(as_list(h_msg["intent"]))
       /\ \A i \in 1..Len(h_intents) : Val(h_reply["payload"])[i] = C10_Alone(i)

\* C18. Invalid incoming envelopes cause no side effect: for an envelope
\* lacking a required field, neither /a2a handler runs an intent handler or
\* makes an invoke_tool call, at any time, and the one reply is an error reply.
C18_InvalidNoSideEffect ==
    ~HasRequired(h_msg)
    => /\ h_intents = <<>>
       /\ h_state = <<>>
       /\ h_res = <<>>
       /\ h_calls = <<>>
       /\ h_pc \in {"idle", "recv", "replied"}
       /\ h_pc = "replied"
          => /\ h_reply["type"] = Str("error")
             /\ Kind(h_reply["payload"]) = "dict"
             /\ DOMAIN Val(h_reply["payload"]) = {"error"}

\* C18 is exercised: the support agent answered an envelope that names a
\* tool-calling intent but lacks the field "to".
C18_Witness ==
    /\ h_agent = "support_agent"
    /\ h_pc = "replied"
    /\ DOMAIN h_msg = Fields \ {"to"}
    /\ h_reply["type"] = Str("error")
    /\ h_calls = <<>>

\* the invoke_tool call of the i-th intent has returned
C22_ToolReturned(i) == h_state[i] = "done" /\ h_tool[i] # <<>>

\* what the tool channel did on the last attempt of the i-th intent's call
C22_LastBehaviour(i) == h_tool[i][Len(h_tool[i])]

\* C22. invoke_tool returns a normalized status/data pair: whatever the tool
\* and whatever the tool channel does (structured result, unparsable text,
\* empty result, channel failure), invoke_tool returns a map with a status in
\* {ok, error} and a data field, and a failed tool call has the shape of a
\* failed agent call returned by send_message.
C22_NormalizedToolResult ==
    \A i \in 1..Len(h_intents) :
        C22_ToolReturned(i)
        => /\ Kind(h_res[i]) = "dict"
           /\ {"status", "data"} \subseteq DOMAIN Val(h_res[i])
           /\ Val(h_res[i])["status"] \in {Str("ok"), Str("error")}
           /\ C22_LastBehaviour(i).t = "fail"
              => DOMAIN Val(h_res[i]) = DOMAIN Val(post_and_return(Refused))

\* C22, the part the code keeps: a failure of the tool channel is returned as
\* {status: "error", error: detail}, the shape send_message returns for a
\* failed delivery.
C22_FailureShapeAsSend ==
    \A i \in 1..Len(h_intents) :
        (C22_ToolReturned(i) /\ C22_LastBehaviour(i).t = "fail")
        => /\ Kind(h_res[i]) = "dict"
           /\ Val(h_res[i])["status"] = Str("error")
           /\ DOMAIN Val(h_res[i]) = DOMAIN Val(post_and_return(Refused))

\* C23. invoke_tool applies the bounded retry policy: a call whose channel
\* fails is attempted again, up to max_attempts attempts in all, before an
\* error is returned; an attempt follows only failed attempts, and the result
\* is that of the first attempt that did not fail.
C23_ToolRetryPolicy ==
    \A i \in 1..Len(h_intents) :
        C22_ToolReturned(i)
        => /\ Len(h_tool[i]) <= max_attempts
           /\ \A k \in 1..(Len(h_tool[i]) - 1) : h_tool[i][k].t = "fail"
           /\ C22_LastBehaviour(i).t = "fail" => Len(h_tool[i]) = max_attempts

\* C23, the part the code keeps: a call is attempted at most max_attempts times
\* (once), whatever the tool.
C23_ToolAttemptsBounded ==
    \A i \in 1..Len(h_intents) : Len(h_tool[i]) <= max_attempts

\* the payload of the envelope is a dict and holds this customer_id and text
C31_CustomerId == Get(Val(h_msg["payload"]), "customer_id", None)
C31_Text == Get(Val(h_msg["payload"]), "text", Text(<<>>))

\* the text mentions billing, in any case of the letters
C31_MentionsBilling ==
    /\ Kind(C31_Text) = "text"
    /\ \E k \in 1..Len(Val(C31_Text)) :
          /\ k + 6 <= Len(Val(C31_Text))
          /\ \A d \in 0..6 :
                Val(C31_Text)[k + d] \in {<<"b", "i", "l", "l", "i", "n", "g">>[d + 1],
                                          <<"B", "I", "L", "L", "I", "N", "G">>[d + 1]}

\* the i-th intent is one its handler delegates to the tool bridge, and the
\* tool and arguments of that call
C31_Delegates(i) ==
    /\ Kind(h_msg["payload"]) = "dict"
    /\ \/ h_intents[i] = Str("show_ticket_status") /\ C31_CustomerId \notin {None, Num(0)}
       \/ /\ h_intents[i] = Str("escalate_issue")
          /\ Kind(C31_Text) = "text"
          /\ ~C31_MentionsBilling

C31_Call(i) ==
    IF h_intents[i] = Str("show_ticket_status")
    THEN <<i, Str("list_tickets"), Dict([customer_ids |-> List(<<C31_CustomerId>>)])>>
    ELSE <<i, Str("create_ticket"), Dict([customer_id |-> C31_CustomerId,
                                          issue |-> C31_Text,
                                          priority |-> Str("medium")])>>

\* the invoke_tool calls made for the i-th intent
C31_CallsOf(i) == {k \in 1..Len(h_calls) : h_calls[k][1] = i}

\* C31. Tool outcome is propagated verbatim: for an intent whose handler
\* delegates to the tool bridge (show_ticket_status with a customer_id,
\* escalate_issue without billing text) at most one invoke_tool call is ever
\* made; once the handler returned, exactly one call was made, with the tool
\* and the arguments of the intent, and the handler's result is the value
\* invoke_tool returned; the result at the intent's position in the payload of
\* the response envelope is that value.
C31_ToolOutcomeVerbatim ==
    h_agent = "support_agent"
    => \A i \in 1..Len(h_intents) :
          C31_Delegates(i)
          => /\ Cardinality(C31_CallsOf(i)) <= 1
             /\ Len(h_tool[i]) <= Cardinality(C31_CallsOf(i))
             /\ \A k \in C31_CallsOf(i) : h_calls[k] = C31_Call(i)
             /\ h_state[i] \in {"pending", "tool", "done"}
             /\ h_state[i] = "done"
                => /\ Cardinality(C31_CallsOf(i)) = 1
                   /\ Len(h_tool[i]) = 1
                   /\ h_res[i] = invoke_tool(h_tool[i][1])
             /\ (h_pc = "replied" /\ h_reply["type"] = Str("response"))
                => /\ Kind(h_reply["payload"]) = "list"
                   /\ Len(Val(h_reply["payload"])) = Len(h_intents)
                   /\ Len(h_tool[i]) = 1
                   /\ Val(h_reply["payload"])[i] = invoke_tool(h_tool[i][1])

\* C31 is exercised: an envelope with a plain intent and two delegating intents
\* was answered; the tool returned a ticket for one call and failed for the
\* other, and the payload holds the two values invoke_tool returned.
C31_Witness ==
    /\ h_agent = "support_agent"
    /\ h_pc = "replied"
    /\ h_reply["type"] = Str("response")
    /\ h_intents = <<Str("support_request"), Str("show_ticket_status"), Str("escalate_issue")>>
    /\ C31_Delegates(2)
    /\ C31_Delegates(3)
    /\ h_tool[2] = <<ToolJson(Dict([id |-> Num(7), status |-> Str("open")]))>>
    /\ h_tool[3] = <<ToolFails>>
    /\ Val(h_reply["payload"])[2] = Dict([id |-> Num(7), status |-> Str("open")])
    /\ Val(h_reply["payload"])[3] = invoke_tool(ToolFails)
    /\ Len(h_calls) = 2

\* the i-th intent is one whose handler short-circuits, and what it returns
C33_ShortCircuits(i) ==
    /\ Kind(h_msg["payload"]) = "dict"
    /\ \/ h_intents[i] = Str("show_ticket_status") /\ C31_CustomerId \in {None, Num(0)}
       \/ h_intents[i] = Str("escalate_issue") /\ C31_MentionsBilling
       \/ h_intents[i] \notin C10_Registered

C33_Result(i) ==
    IF h_intents[i] = Str("show_ticket_status")
    THEN Dict([status |-> Str("error"), error |-> Str("Missing customer_id")])
    ELSE IF h_intents[i] = Str("escalate_issue")
    THEN Dict([status |-> Str("need_billing_context"),
               note |-> Str("Require billing info from data agent")])
    ELSE Dict([status |-> Str("error"),
               error |-> Fmt("Unknown support intent: ", h_intents[i])])

\* C33. Support-agent handlers that short-circuit make no tool call: for
\* show_ticket_status without a customer_id, for escalate_issue whose text
\* mentions billing and for an unknown intent, the handler returns its result
\* and no invoke_tool call is ever made for that intent (nothing is read or
\* created through the tool bridge). A handler that fails on a payload that
\* is not a dict makes no call either.
C33_ShortCircuitNoToolCall ==
    h_agent = "support_agent"
    => \A i \in 1..Len(h_intents) :
          /\ C33_ShortCircuits(i)
             => /\ C31_CallsOf(i) = {}
                /\ h_tool[i] = <<>>
                /\ h_state[i] \in {"pending", "done"}
                /\ h_state[i] = "done" => h_res[i] = C33_Result(i)
          /\ Kind(h_msg["payload"]) # "dict"
             => h_calls = <<>> /\ h_state[i] \in {"pending", "raised"}

\* C33 is exercised: an envelope whose payload has no customer_id and a text
\* about billing carried the three short-circuiting intents; all three
\* handlers returned and no tool call was made.
C33_Witness ==
    /\ h_agent = "support_agent"
    /\ h_pc = "replied"
    /\ Len(h_intents) = 3
    /\ \A i \in 1..3 : C33_ShortCircuits(i) /\ h_state[i] = "done"
    /\ \E i \in 1..3 : h_intents[i] = Str("show_ticket_status")
    /\ \E i \in 1..3 : h_intents[i] = Str("escalate_issue")
    /\ \E i \in 1..3 : h_intents[i] = Str("nope")
    /\ h_calls = <<>>

-----------------------------------------------------------------------------
(* One request to the router's /query endpoint *)

TextUpdateEmail ==
    Text(<<"U", "p", "d", "a", "t", "e", " ", "m", "y", " ", "e", "m", "a", "i", "l",
           " ", "t", "o", " ", "n", "e", "w", "@", "e", "m", "a", "i", "l", ".", "c",
           "o", "m">>)
TextRefundUpgrade == Text(<<"r", "e", "f", "u", "n", "d", " ", "a", "n", "d", " ",
                            "u", "p", "g", "r", "a", "d", "e">>)
TextThree ==
    Text(<<"i", "n", "f", "o", ":", " ", "c", "a", "n", "c", "e", "l", ",", " ", "o",
           "p", "e", "n", " ", "t", "i", "c", "k", "e", "t">>)
TextTicketHistory ==
    Text(<<"S", "h", "o", "w", " ", "m", "y", " ", "t", "i", "c", "k", "e", "t", " ",
           "h", "i", "s", "t", "o", "r", "y">>)
TextHello == Text(<<"h", "e", "l", "l", "o">>)
TextBillingTicket ==
    Text(<<"O", "p", "e", "n", " ", "a", " ", "b", "i", "l", "l", "i", "n", "g", " ",
           "t", "i", "c", "k", "e", "t">>)

TextActiveCustomers ==
    Text(<<"A", "c", "t", "i", "v", "e", " ", "c", "u", "s", "t", "o", "m", "e", "r", "s">>)

QueryTexts == {TextUpdateEmail, TextRefundUpgrade, TextThree, TextTicketHistory, TextHello,
               TextBillingTicket, TextActiveCustomers, Text(<<>>), Num(5)}

QueryCustomerIds == {Num(0), Num(1)}

\* request bodies with and without text and customer_id
QueryBodies ==
    {[text |-> t, customer_id |-> c] : t \in QueryTexts, c \in QueryCustomerIds}
    \cup {[text |-> t] : t \in QueryTexts}
    \cup {[customer_id |-> c] : c \in QueryCustomerIds}
    \cup {EmptyMap}

\* what a target agent can answer with status 200
QueryReplies ==
    {ReplyEnvelope(List(<<Dict([status |-> Str("ok"), answer_text |-> Str("Refund initiated.")])>>),
                   "response"),
     ReplyEnvelope(List(<<Dict([status |-> Str("error"), error |-> Str("Missing customer_id")])>>),
                   "response"),
     ReplyEnvelope(Dict([error |-> Str("boom")]), "error"),
     Dict([status |-> Str("ok"), data |-> Dict([id |-> Num(1)])]),
     List(<<>>)}

\* what the transport can do on a branch's delivery attempt
QueryOutcomes ==
    {Refused, Http(500, Str("Internal Server Error"))} \cup {Http(200, r) : r \in QueryReplies}

Init ==
    /\ uuid_n = 0
    /\ IdleEnvelope
    /\ IdleSend
    /\ IdleHandler
    /\ q_body \in QueryBodies
    /\ q_pc = "recv"
    /\ q_meta = <<>>
    /\ q_sent = <<>>
    /\ q_bpc = <<>>
    /\ q_raw = <<>>
    /\ q_order = <<>>
    /\ q_posts = 0
    /\ q_resp = None

Next ==
    \/ QueryReceive
    \/ \E i \in 1..Len(q_bpc) : BranchStart(i)
    \/ \E i \in 1..Len(q_bpc), o \in QueryOutcomes : BranchPost(i, o)
    \/ \E i \in 1..Len(q_bpc), b \in ToolBehaviours : BranchPostSupport(i, b)
    \/ \E i \in 1..Len(q_bpc) : BranchRaise(i)
    \/ QueryJoin

Spec == Init /\ [][Next]_vars

\* the same, every delivery attempt terminating and the event loop running
\* whatever is ready: a step that stays possible is eventually taken
SpecLive == Spec /\ WF_vars(Next)

-----------------------------------------------------------------------------
(* Claims about /query (checked under Spec) *)

\* the request passed the required-field check of lines 133-134
C1_Accepted ==
    /\ Truthy(Get(q_body, "text", None))
    /\ Truthy(Get(q_body, "customer_id", None))

\* the Outcomes of the aggregate response
C1_Results == Val(Val(q_resp)["results"])

\* C1. Fan-out completeness: the aggregate response of an accepted /query whose
\* build step produced N tasks holds exactly N Outcomes, the i-th carrying the
\* intent of the i-th submitted task, whatever the completion order of the
\* branches and whichever of them succeeded, returned an error or raised.
C1_FanOutComplete ==
    (q_pc = "done" /\ C1_Accepted)
    => LET intents == classify_intents(Val(q_body["text"]))
       IN  /\ Kind(q_resp) = "dict"
           /\ Val(q_resp)["status"] = Str("ok")
           /\ Kind(Val(q_resp)["results"]) = "list"
           /\ Len(C1_Results) = Len(q_sent)
           /\ Len(q_sent) = Len(intents)
           /\ \A i \in 1..Len(q_sent) :
                 /\ Kind(C1_Results[i]) = "dict"
                 /\ Val(C1_Results[i])["intent"] = q_sent[i].msg["intent"]
                 /\ Val(C1_Results[i])["intent"] = intents[i]

\* C1 is exercised: three tasks were submitted, the last submitted branch
\* completed first, one branch raised, one returned an error and one succeeded,
\* and the aggregate response was returned.
C1_Witness ==
    /\ q_pc = "done"
    /\ C1_Accepted
    /\ Len(q_sent) = 3
    /\ q_order = <<3, 1, 2>>
    /\ Kind(q_raw[1]) = "exc"
    /\ Val(C1_Results[1])["status"] = Str("error")
    /\ Val(C1_Results[2])["status"] = Str("error")
    /\ Kind(q_raw[2]) = "dict"
    /\ Val(C1_Results[3])["status"] = Str("ok")
    /\ Len(C1_Results) = 3

\* the branches whose awaitable raised before send_message could run
C11_RaisedAtStart == {i \in 1..Len(q_sent) : Kind(q_raw[i]) = "exc"}

\* C11. Join waits for all branches: the aggregate response is never returned
\* while a dispatched branch is still running; a branch that fails, returns an
\* error or raises neither ends the join early nor cancels or skips a sibling:
\* every branch terminates on its own, exactly once, and every branch that
\* started its Connector call made its delivery attempt.
C11_JoinWaitsForAll ==
    (q_pc = "done" /\ C1_Accepted)
    => /\ \A i \in 1..Len(q_sent) : q_bpc[i] = "done"
       /\ Len(q_order) = Len(q_sent)
       /\ {q_order[k] : k \in 1..Len(q_order)} = 1..Len(q_sent)
       /\ q_posts = Len(q_sent) - Cardinality(C11_RaisedAtStart)
       /\ \A i \in 1..Len(q_sent) : q_raw[i] # None

\* C11 is exercised: of three branches the first to terminate raised, the two
\* others made their delivery attempts afterwards, one of them failing, and
\* only then was the aggregate response returned.
C11_Witness ==
    /\ q_pc = "done"
    /\ C1_Accepted
    /\ Len(q_sent) = 3
    /\ Kind(q_raw[q_order[1]]) = "exc"
    /\ q_posts = 2
    /\ \E i \in 1..3 : Kind(q_raw[i]) = "dict" /\ Get(Val(q_raw[i]), "error", None) # None

\* the reply a target agent gave reports failure: an error-type envelope, or
\* a payload whose first result carries status "error"
C12_ErrorEnvelope(res) ==
    /\ Kind(res) = "dict"
    /\ "payload" \in DOMAIN Val(res)
    /\ Get(Val(res), "type", None) = Str("error")

C12_ErrorResult(res) ==
    /\ Kind(res) = "dict"
    /\ "payload" \in DOMAIN Val(res)
    /\ Kind(Val(res)["payload"]) = "list"
    /\ Len(Val(Val(res)["payload"])) > 0
    /\ Kind(Val(Val(res)["payload"])[1]) = "dict"
    /\ Get(Val(Val(Val(res)["payload"])[1]), "status", None) = Str("error")

\* C12. Application failure is surfaced per task: whenever the target agent
\* answered a task's envelope and reported failure (an error-type reply
\* envelope, or a reply whose payload carries status "error"), the Outcome of
\* that task has status "error".
C12_ApplicationFailureSurfaced ==
    (q_pc = "done" /\ C1_Accepted)
    => \A i \in 1..Len(q_sent) :
          (C12_ErrorEnvelope(q_raw[i]) \/ C12_ErrorResult(q_raw[i]))
          => Val(C1_Results[i])["status"] = Str("error")

\* C12, the part the code keeps: a response envelope whose first result carries
\* status "error" yields an Outcome with status "error".
C12_ErrorResultSurfaced ==
    (q_pc = "done" /\ C1_Accepted)
    => \A i \in 1..Len(q_sent) :
          C12_ErrorResult(q_raw[i]) => Val(C1_Results[i])["status"] = Str("error")

\* C13. Outcome status domain: every Outcome of every aggregate response has
\* status "ok" or "error", whatever the target agent or the Connector returned.
C13_StatusDomain ==
    (q_pc = "done" /\ C1_Accepted)
    => \A i \in 1..Len(q_sent) :
          Val(C1_Results[i])["status"] \in {Str("ok"), Str("error")}

\* the request lacks text (absent or empty) or lacks customer_id
C14_Missing ==
    \/ "text" \notin DOMAIN q_body
    \/ q_body["text"] = Text(<<>>)
    \/ "customer_id" \notin DOMAIN q_body

\* C14. Missing input is rejected before any dispatch: a request whose text is
\* empty or absent, or whose customer_id is absent, is answered with
\* {status: "error", message: "Missing 'text' or 'customer_id'"}; no intent is
\* classified, no task is built (no envelope, no uuid drawn) and no Connector
\* send is made for it, at any time.
C14_RejectedBeforeDispatch ==
    C14_Missing
    => /\ q_meta = <<>>
       /\ q_sent = <<>>
       /\ q_bpc = <<>>
       /\ q_order = <<>>
       /\ q_posts = 0
       /\ uuid_n = 0
       /\ q_pc \in {"recv", "done"}
       /\ q_pc = "done"
          => q_resp = Dict([status |-> Str("error"),
                            message |-> Str("Missing 'text' or 'customer_id'")])

\* C14 is exercised: a request with a text that names intents but without
\* customer_id was answered.
C14_Witness ==
    /\ q_pc = "done"
    /\ "customer_id" \notin DOMAIN q_body
    /\ "text" \in DOMAIN q_body
    /\ q_body["text"] = TextRefundUpgrade
    /\ Val(q_resp)["status"] = Str("error")

\* the request ended: a response was returned or an exception left the endpoint
C15_Ended == q_pc \in {"done", "crashed"}

\* C15. Overall status is ok on partial failure: every request that passes the
\* required-field check returns top-level status "ok" with a results sequence,
\* whatever the status of its Outcomes; a top-level error is returned only for
\* a request missing a required field.
C15_OverallOk ==
    /\ (C15_Ended /\ C1_Accepted)
       => /\ q_pc = "done"
          /\ Kind(q_resp) = "dict"
          /\ Val(q_resp)["status"] = Str("ok")
          /\ Kind(Val(q_resp)["results"]) = "list"
    /\ (C15_Ended /\ ~C1_Accepted)
       => /\ q_pc = "done"
          /\ Val(q_resp)["status"] = Str("error")

\* C15, the part the code keeps: the same for a request whose text is a str.
C15_OverallOkForStrText ==
    (C15_Ended /\ C1_Accepted /\ Kind(q_body["text"]) = "text")
    => /\ q_pc = "done"
       /\ Val(q_resp)["status"] = Str("ok")
       /\ Kind(Val(q_resp)["results"]) = "list"

\* the tags the classifier can return
C24_Tags ==
    {Str("get_customer_info"), Str("get_customer_history"), Str("update_email"),
     Str("refund_request"), Str("cancel_subscription"), Str("upgrade_request"),
     Str("show_ticket_status"), Str("escalate_issue"), Str("list_customers"),
     Str("support_request")}

\* C24. Classifier output is never empty: for every text classify_intents
\* returns a non-empty sequence of intent tags, the single default tag
\* support_request when no rule fires (and only then), and every accepted
\* /query builds at least one task, one per tag.
C24_ClassifierNeverEmpty ==
    ("text" \in DOMAIN q_body /\ Kind(q_body["text"]) = "text")
    => LET intents == classify_intents(Val(q_body["text"]))
       IN  /\ Len(intents) >= 1
           /\ \A i \in 1..Len(intents) : intents[i] \in C24_Tags
           /\ (\E i \in 1..Len(intents) : intents[i] = Str("support_request"))
              => intents = <<Str("support_request")>>
           /\ q_body["text"] \in {TextHello, Text(<<>>)}
              => intents = <<Str("support_request")>>
           /\ (q_pc \in {"gather", "done"} /\ C1_Accepted)
              => /\ Len(q_sent) >= 1
                 /\ Len(q_sent) = Len(intents)

\* C24 is exercised: a text no rule matches was answered with the one Outcome
\* of the default tag.
C24_Witness ==
    /\ q_pc = "done"
    /\ C1_Accepted
    /\ q_body["text"] = TextHello
    /\ Len(q_sent) = 1
    /\ q_sent[1].msg["intent"] = Str("support_request")
    /\ Val(C1_Results[1])["intent"] = Str("support_request")

\* the routing and escalation table of the claim
C25_ToDataAgent ==
    {Str("get_customer_info"), Str("get_customer_history"), Str("update_email"),
     Str("list_customers")}

C25_Escalated ==
    {Str("update_email"), Str("refund_request"), Str("cancel_subscription"),
     Str("upgrade_request"), Str("escalate_issue")}

\* C25. Task Builder routing and escalation table: build_agent_task sends
\* get_customer_info, get_customer_history, update_email and list_customers to
\* the customer-data agent and every other intent to the support agent, sets
\* requires_escalation exactly for update_email, refund_request,
\* cancel_subscription, upgrade_request and escalate_issue, whatever the
\* customer_id and the text, and target, payload and flag are the same
\* whenever the task is built (whatever uuids were drawn before).
C25_RoutingAndEscalationTable ==
    \A i \in 1..Len(q_sent) :
        LET intent == q_meta[i].intent
            again == build_agent_task(intent, q_body["customer_id"], q_body["text"], 0)
        IN  /\ q_sent[i].msg["intent"] = intent
            /\ q_sent[i].msg["from"] = Str("router")
            /\ IF intent \in C25_ToDataAgent
               THEN /\ q_sent[i].target_url = DATA_AGENT_URL
                    /\ q_sent[i].msg["to"] = Str("customer_data_agent")
               ELSE /\ q_sent[i].target_url = SUPPORT_AGENT_URL
                    /\ q_sent[i].msg["to"] = Str("support_agent")
            /\ q_meta[i].requires_escalation = (intent \in C25_Escalated)
            /\ q_sent[i].target_url = again.target_url
            /\ q_sent[i].msg["payload"] = again.msg["payload"]
            /\ q_meta[i].requires_escalation = again.requires_escalation

\* C25 is exercised: one request built a task for the customer-data agent
\* without escalation, one for the support agent with escalation through a
\* plain tag and one for the support agent through escalate_issue.
C25_Witness ==
    /\ q_pc = "gather"
    /\ Len(q_sent) = 3
    /\ q_meta[1] = [intent |-> Str("get_customer_info"), requires_escalation |-> FALSE]
    /\ q_meta[2] = [intent |-> Str("cancel_subscription"), requires_escalation |-> TRUE]
    /\ q_meta[3] = [intent |-> Str("escalate_issue"), requires_escalation |-> TRUE]
    /\ q_sent[1].target_url = DATA_AGENT_URL
    /\ q_sent[3].target_url = SUPPORT_AGENT_URL

\* the request of the scenario
C26_Request == q_body = [text |-> TextUpdateEmail, customer_id |-> Num(1)]

C26_NewEmail == Text(<<"n", "e", "w", "@", "e", "m", "a", "i", "l", ".", "c", "o", "m">>)

\* the agent answered the task with a response envelope whose one result has status ok
C26_SuccessReply(res) ==
    /\ Kind(res) = "dict"
    /\ Get(Val(res), "type", None) = Str("response")
    /\ Kind(Get(Val(res), "payload", None)) = "list"
    /\ Len(Val(Val(res)["payload"])) = 1
    /\ StatusOf(Val(Val(res)["payload"])[1]) = Str("ok")

\* C26. End-to-end update_email: {text: "Update my email to new@email.com",
\* customer_id: 1} is classified as exactly [update_email]; the one task goes
\* to the customer-data agent with the address new@email.com in its payload
\* and requires_escalation = true; one Connector call is made, and when the
\* agent replies successfully the aggregate response holds the single Outcome
\* {intent: update_email, status: ok, data, requires_escalation: true}.
C26_UpdateEmailScenario ==
    C26_Request
    => /\ q_posts <= 1
       /\ q_pc \in {"gather", "done"}
          => /\ q_meta = <<[intent |-> Str("update_email"), requires_escalation |-> TRUE]>>
             /\ Len(q_sent) = 1
             /\ q_sent[1].target_url = DATA_AGENT_URL
             /\ q_sent[1].msg["to"] = Str("customer_data_agent")
             /\ q_sent[1].msg["intent"] = Str("update_email")
             /\ q_sent[1].msg["payload"] =
                    Dict([customer_id |-> Num(1), updates |-> Dict([email |-> C26_NewEmail])])
       /\ (q_pc = "done" /\ C26_SuccessReply(q_raw[1]))
          => /\ q_posts = 1
             /\ q_resp = Dict([status |-> Str("ok"),
                               results |-> List(<<
                                   Dict([intent |-> Str("update_email"),
                                         status |-> Str("ok"),
                                         data |-> Val(Val(q_raw[1])["payload"])[1],
                                         requires_escalation |-> Bool(TRUE)])>>)])

\* C26 is exercised: the scenario's request was answered after the agent's
\* successful reply.
C26_Witness ==
    /\ C26_Request
    /\ q_pc = "done"
    /\ C26_SuccessReply(q_raw[1])
    /\ q_posts = 1
    /\ Val(C1_Results[1])["status"] = Str("ok")

\* C27. Every query is eventually answered: each delivery attempt terminating
\* and the branches being scheduled fairly, every /query request ends, with a
\* response returned (or, for a text that is not a str, with the exception of
\* classify_intents leaving the endpoint).
C27_EventuallyAnswered == <>(q_pc \in {"done", "crashed"})

\* C27 for the requests whose text is a str or is missing: the response is returned.
C27_StrTextEventuallyDone ==
    ("text" \in DOMAIN q_body => Kind(q_body["text"]) = "text") => <>(q_pc = "done")

\* C27 is exercised: a request with three branches, one of which met a
\* refused connection and one a server error, was answered.
C27_Witness ==
    /\ q_pc = "done"
    /\ Len(q_sent) = 3
    /\ q_posts = 3
    /\ q_raw[1] = post_and_return(Refused)
    /\ q_raw[2] = post_and_return(Http(500, Str("Internal Server Error")))

\* the reply of branch i carries a payload that is a non-empty sequence
C28_HasResults(i) ==
    /\ Kind(q_raw[i]) = "dict"
    /\ "payload" \in DOMAIN Val(q_raw[i])
    /\ Kind(Val(q_raw[i])["payload"]) = "list"
    /\ Len(Val(Val(q_raw[i])["payload"])) > 0

C28_First(i) == Val(Val(q_raw[i])["payload"])[1]

\* C28. Reply unwrapping by position: every envelope the router sends carries
\* one intent, the task's own, and the support agent answers it with one
\* result; when a reply's payload is a non-empty sequence of per-intent
\* results, the Outcome's data is the element at the task's position (the
\* first) and the Outcome's status is that element's status.
C28_UnwrapByPosition ==
    /\ \A i \in 1..Len(q_sent) :
          /\ Kind(q_sent[i].msg["intent"]) = "str"
          /\ q_sent[i].msg["intent"] = q_meta[i].intent
          /\ (C28_HasResults(i) /\ Kind(Val(q_raw[i])["message_id"]) = "uuid")
             => Len(Val(Val(q_raw[i])["payload"])) = 1
    /\ (q_pc = "done" /\ C1_Accepted)
       => \A i \in 1..Len(q_sent) :
             C28_HasResults(i)
             => /\ Val(C1_Results[i])["data"] = C28_First(i)
                /\ StatusOf(C28_First(i)) # None
                   => Val(C1_Results[i])["status"] = StatusOf(C28_First(i))

\* C28 is exercised: a reply whose one result has status "error" was unwrapped
\* into an Outcome with that status and that result as data.
C28_Witness ==
    /\ q_pc = "done"
    /\ C1_Accepted
    /\ Len(q_sent) = 2
    /\ C28_HasResults(2)
    /\ StatusOf(C28_First(2)) = Str("error")
    /\ Val(C1_Results[2])["status"] = Str("error")
    /\ Val(C1_Results[2])["data"] = C28_First(2)

\* a step of branch i: its state or its result changes
C29_BranchStep(i) == q_bpc'[i] # q_bpc[i] \/ q_raw'[i] # q_raw[i]

\* C29. Branch non-interference: a step of branch i changes neither the state
\* nor the result of a sibling, nor the tasks, nor the aggregate, and a result
\* once set stays; the aggregate is written by the join only, and Outcome i is
\* the Outcome of task i and of the result of task i's own Connector call.
C29_BranchNonInterference ==
    /\ [][\A i \in 1..Len(q_bpc) :
            /\ C29_BranchStep(i)
               => /\ \A j \in (1..Len(q_bpc)) \ {i} :
                        q_bpc'[j] = q_bpc[j] /\ q_raw'[j] = q_raw[j]
                  /\ q_meta' = q_meta
                  /\ q_sent' = q_sent
                  /\ q_resp' = q_resp
            /\ q_bpc[i] = "done" => q_raw'[i] = q_raw[i]]_vars
    /\ [](q_pc = "gather" => q_resp = None)
    /\ []((q_pc = "done" /\ C1_Accepted)
          => \A i \in 1..Len(q_sent) :
                C1_Results[i] = outcome(q_meta[i], q_raw[i]))

\* C29 is exercised: of two branches the second finished first and succeeded,
\* the first failed afterwards, and each Outcome shows its own branch's result.
C29_Witness ==
    /\ q_pc = "done"
    /\ Len(q_sent) = 2
    /\ q_order = <<2, 1>>
    /\ q_raw[1] = post_and_return(Refused)
    /\ Val(C1_Results[1])["status"] = Str("error")
    /\ C26_SuccessReply(q_raw[2])
    /\ Val(C1_Results[2])["status"] = Str("ok")

\* C30. Escalation flag is carried, not treated as failure: every Outcome's
\* requires_escalation is the flag the Task Builder gave the task, whatever
\* the branch's result, and the Outcome's status is the one the result alone
\* determines.
C30_EscalationCarried ==
    (q_pc = "done" /\ C1_Accepted)
    => \A i \in 1..Len(q_sent) :
          /\ Val(C1_Results[i])["requires_escalation"] = Bool(q_meta[i].requires_escalation)
          /\ Val(C1_Results[i])["requires_escalation"]
               = Bool(Val(C1_Results[i])["intent"] \in C25_Escalated)
          /\ Val(C1_Results[i])["status"] = status_and_data(q_raw[i]).status

\* C30 is exercised: of two escalated tasks one succeeded, with status ok, and
\* one raised, with status error; both Outcomes carry the flag.
C30_Witness ==
    /\ q_pc = "done"
    /\ Len(q_sent) = 2
    /\ Val(C1_Results[1])["requires_escalation"] = Bool(TRUE)
    /\ Val(C1_Results[1])["status"] = Str("ok")
    /\ Val(C1_Results[2])["requires_escalation"] = Bool(TRUE)
    /\ Kind(q_raw[2]) = "exc"
    /\ Val(C1_Results[2])["status"] = Str("error")

\* the cases the claim names: text absent or empty, customer_id absent or 0
C32_AbsentOrEmpty ==
    \/ "text" \notin DOMAIN q_body
    \/ q_body["text"] = Text(<<>>)
    \/ "customer_id" \notin DOMAIN q_body
    \/ q_body["customer_id"] = Num(0)

\* the request was answered with the structured error
C32_Rejected ==
    /\ q_pc = "done"
    /\ q_resp = Dict([status |-> Str("error"),
                      message |-> Str("Missing 'text' or 'customer_id'")])

\* C32. The /query required-field check is a falsiness check: once the
\* endpoint has run the check, the request is rejected with the structured
\* error exactly when text is absent or empty or customer_id is absent or 0,
\* which are the requests one of whose two fields is falsy; a rejected request,
\* the one with a non-empty text and customer_id = 0 included, is never
\* classified, builds no task and makes no Connector call.
C32_FalsinessCheck ==
    /\ C32_AbsentOrEmpty <=> ~C1_Accepted
    /\ q_pc # "recv" => (C32_Rejected <=> C32_AbsentOrEmpty)
    /\ C32_AbsentOrEmpty
       => /\ q_pc \in {"recv", "done"}
          /\ q_meta = <<>>
          /\ q_sent = <<>>
          /\ q_bpc = <<>>
          /\ q_posts = 0
          /\ uuid_n = 0

\* C32 is exercised: a request whose text names two intents and whose
\* customer_id is 0 was rejected.
C32_Witness ==
    /\ C32_Rejected
    /\ q_body = [text |-> TextRefundUpgrade, customer_id |-> Num(0)]
    /\ q_posts = 0

====
